---- MODULE Spec2Model ----
(***************************************************************************)
(* Model of package forkprocess (fork.go): the ForkProcess launcher, its   *)
(* constructor NewForkProcess and its two methods Exec and Release,        *)
(* together with the part of the operating system they act on (the         *)
(* process table and the os.Process handles).                              *)
(*                                                                         *)
(* A handle (an os.Process pointer) is a number 1..MaxSpawns, the index of *)
(* process it refers to in procs; Nil (0) is the nil pointer.              *)
(***************************************************************************)
EXTENDS Integers, Sequences, FiniteSets, TLC

\* ---------------------------------------------------------------- bounds
MaxSpawns == 3      \* successful os.StartProcess calls in one behaviour
MaxCalls  == 4      \* Exec and Release calls in one behaviour
HistLen   == 3      \* calls remembered per launcher

\* ---------------------------------------------------------------- values
Nil    == 0
NilErr == "nil"

\* the arguments NewForkProcess is called with
Configs ==
  { [stdin |-> 3, stdout |-> 4, stderr |-> 4, uid |-> 0,    gid |-> 0,    execPath |-> "/"],
    [stdin |-> 5, stdout |-> 6, stderr |-> 7, uid |-> 1000, gid |-> 1000, execPath |-> "/tmp"] }

\* the calling process: its supplementary groups and its environment
Parents ==
  { [groups |-> {},      env |-> <<"PATH=/bin">>,           sid |-> 1],
    [groups |-> {4, 27}, env |-> <<"PATH=/bin", "HOME=/">>, sid |-> 1] }

\* the goroutines that call one launcher without serialization
Threads == {1, 2}

\* a goroutine that is in no call
Idle == [pc |-> "idle", op |-> "none", release |-> FALSE, p |-> Nil,
         err |-> NilErr, copy |-> Nil, target |-> Nil, stale |-> FALSE]

ProcessNames == {"/bin/sleep", "/nonexistent", "/etc/passwd"}
ArgvSet      == { <<"sleep", "60">> }
Faults       == {NilErr, "EAGAIN"}      \* resource exhaustion at fork time
ReleaseErrs  == {NilErr, "EINVAL"}      \* what os.Process.Release reports

VARIABLES
  f,         \* f[l]: the ForkProcess struct of launcher l
  procs,     \* the OS processes created so far; procs[h] is the one handle h refers to
  relCount,  \* relCount[h]: how many times os.Process.Release was invoked on handle h
  parent,    \* the calling process
  hist,      \* hist[l]: the last HistLen calls made on launcher l, newest last
  lastExec,  \* lastExec[l]: outcome of the most recent Exec on launcher l
  ncalls,    \* calls made so far
  openFiles, \* the os.File handles of the caller that are open
  thr        \* thr[t]: where goroutine t is inside a call on launcher 1, and its locals

vars == <<f, procs, relCount, parent, hist, lastExec, ncalls, openFiles, thr>>

\* ------------------------------------------------------------ constructor
NewForkProcess(stdin, stdout, stderr, uid, gid, execPath) ==
  [stdin |-> stdin, stdout |-> stdout, stderr |-> stderr,
   uid |-> uid, gid |-> gid, execPath |-> execPath, process |-> Nil]

\* ------------------------------------------------------------------- Exec
\* the credential Exec builds
Credential_SetGroups(fp) ==
  [Uid |-> fp.uid, Gid |-> fp.gid, Groups |-> {}, NoSetGroups |-> FALSE]

Credential(fp) ==
  [Uid |-> fp.uid, Gid |-> fp.gid, Groups |-> {}, NoSetGroups |-> TRUE]

SysProcAttr(fp) == [Credential |-> Credential(fp), Setsid |-> TRUE]

ProcAttr_SwapOutErr(fp, par) ==
  [Dir   |-> fp.execPath,
   Env   |-> par.env,
   Files |-> <<fp.stdin, fp.stderr, fp.stdout>>,
   Sys   |-> SysProcAttr(fp)]

ProcAttr(fp, par) ==
  [Dir   |-> fp.execPath,
   Env   |-> par.env,
   Files |-> <<fp.stdin, fp.stdout, fp.stderr>>,
   Sys   |-> SysProcAttr(fp)]

\* the errno of process creation: the path decides, then the resources
SpawnErrno(name, fault) ==
  CASE name = "/nonexistent" -> "ENOENT"
    [] name = "/etc/passwd"  -> "EACCES"
    [] OTHER                 -> fault

\* the child the OS creates for an attribute set: setgroups is skipped when
\* NoSetGroups is set, so the child keeps the caller's supplementary groups
Child(name, argv, attr, par, h) ==
  [name    |-> name,
   argv    |-> argv,
   uid     |-> attr.Sys.Credential.Uid,
   gid     |-> attr.Sys.Credential.Gid,
   groups  |-> IF attr.Sys.Credential.NoSetGroups
                 THEN par.groups ELSE attr.Sys.Credential.Groups,
   dir     |-> attr.Dir,
   env     |-> attr.Env,
   fds     |-> attr.Files,
   sid     |-> IF attr.Sys.Setsid THEN par.sid + h ELSE par.sid,
   running |-> TRUE]

\* os.StartProcess: (nil, *PathError) on failure, (handle, nil) on success
StartProcess(name, argv, attr, par, h, fault) ==
  IF SpawnErrno(name, fault) # NilErr
    THEN [p |-> Nil, err |-> <<"fork/exec", name, SpawnErrno(name, fault)>>,
          child |-> <<>>]
    ELSE [p |-> h, err |-> NilErr,
          child |-> <<Child(name, argv, attr, par, h)>>]

\* f.process, err = os.StartProcess(...): the field takes the returned pointer
ExecAssign_KeepOld(old, sp) == IF old # Nil THEN old ELSE sp.p

ExecAssign(old, sp) == sp.p

\* if err != nil { return err }
ExecSpawnErr_Swallow(sp) == NilErr

ExecSpawnErr_Wrap(sp) == <<"exec", sp.err>>

ExecSpawnErr(sp) == sp.err

\* if release { err = f.process.Release(); f.process = nil; ... }; return nil
ExecDetach_KeepHandle(old, p, release, relErr) ==
  IF release
    THEN [process |-> p, err |-> relErr, relOn |-> <<p>>]
    ELSE [process |-> p, err |-> NilErr, relOn |-> <<>>]

ExecDetach_ReleaseOld(old, p, release, relErr) ==
  IF release
    THEN [process |-> Nil, err |-> relErr,
          relOn |-> IF old # Nil THEN <<old>> ELSE <<p>>]
    ELSE [process |-> p, err |-> NilErr, relOn |-> <<>>]

ExecDetach(old, p, release, relErr) ==
  IF release
    THEN [process |-> Nil, err |-> relErr, relOn |-> <<p>>]
    ELSE [process |-> p, err |-> NilErr, relOn |-> <<>>]

\* Exec without the early return of lines 110-112
ExecCall_NoEarlyReturn(fp, release, name, argv, par, h, fault, relErr) ==
  LET attr == ProcAttr(fp, par)
      sp  == StartProcess(name, argv, attr, par, h, fault)
      p1  == ExecAssign(fp.process, sp)
      det == ExecDetach(fp.process, p1, release, relErr)
  IN  [process |-> det.process,
       err |-> IF sp.err # NilErr THEN sp.err ELSE det.err,
       spawnErr |-> sp.err, child |-> sp.child, relOn |-> det.relOn,
       attr |-> attr]

\* the whole of Exec on the struct fp: the new field, the error returned,
\* the child created and the handles os.Process.Release was invoked on
ExecCall(fp, release, name, argv, par, h, fault, relErr) ==
  LET attr == ProcAttr(fp, par)
      sp  == StartProcess(name, argv, attr, par, h, fault)
      p1  == ExecAssign(fp.process, sp)
      det == ExecDetach(fp.process, p1, release, relErr)
  IN  IF sp.err # NilErr
        THEN [process |-> p1, err |-> ExecSpawnErr(sp), spawnErr |-> sp.err,
              child |-> sp.child, relOn |-> <<>>, attr |-> attr]
        ELSE [process |-> det.process, err |-> det.err, spawnErr |-> NilErr,
              child |-> sp.child, relOn |-> det.relOn, attr |-> attr]

\* ---------------------------------------------------------------- Release
\* Release has a value receiver and assigns nothing: the struct is not changed
ReleaseCall_NoNilCheck(fp, relErr) ==
  [process |-> fp.process, err |-> relErr, relOn |-> <<fp.process>>]

ReleaseCall(fp, relErr) ==
  IF fp.process # Nil
    THEN [process |-> fp.process, err |-> relErr, relOn |-> <<fp.process>>]
    ELSE [process |-> fp.process, err |-> NilErr, relOn |-> <<>>]

\* ---------------------------------------------------------------- helpers
Push(h, rec) == IF Len(h) < HistLen THEN Append(h, rec) ELSE Append(Tail(h), rec)

\* relCount after os.Process.Release was invoked on the handles of relOn;
\* n is the number of handles that exist
Bump(rc, relOn, n) ==
  [h \in 1..n |->
     (IF h <= Len(rc) THEN rc[h] ELSE 0)
     + Cardinality({i \in 1..Len(relOn) : relOn[i] = h})]

\* the assignments to f.process: the field of the receiver's struct, and
\* nothing else of any launcher, takes the value p
StoreProcess_Shared(fs, l, p) == [m \in DOMAIN fs |-> [fs[m] EXCEPT !.process = p]]

StoreProcess_ZeroStruct(fs, l, p) ==
  [fs EXCEPT ![l] = IF p = Nil THEN NewForkProcess(Nil, Nil, Nil, 0, 0, "")
                               ELSE [@ EXCEPT !.process = p]]

StoreProcess(fs, l, p) == [fs EXCEPT ![l].process = p]

\* what os.Process.Release does to the process a handle refers to: the
\* process is not signalled or waited for
OsRelease_Kill(pr) == [pr EXCEPT !.running = FALSE]

OsRelease(pr) == pr

\* the process table after os.Process.Release was invoked on the handles of relOn
AfterRelease(ps, relOn) ==
  [h \in 1..Len(ps) |->
     IF \E i \in 1..Len(relOn) : relOn[i] = h THEN OsRelease(ps[h]) ELSE ps[h]]

\* the os.File handles a launcher was constructed with
Streams(fp) == {fp.stdin, fp.stdout, fp.stderr}

\* ------------------------------------------------------------------ state
\* the state after NewForkProcess has constructed the launchers of ls
InitFor(ls) ==
  /\ f \in [ls -> { NewForkProcess(c.stdin, c.stdout, c.stderr,
                                          c.uid, c.gid, c.execPath) : c \in Configs }]
  /\ procs = <<>>
  /\ relCount = <<>>
  /\ parent \in Parents
  /\ hist = [l \in ls |-> <<>>]
  /\ lastExec = [l \in ls |-> [called |-> FALSE, ok |-> FALSE, p |-> Nil]]
  /\ ncalls = 0
  /\ openFiles = UNION { Streams(c) : c \in Configs }
  /\ thr = [t \in Threads |-> Idle]

\* one launcher
Init == InitFor({1})

Exec(l, release, name, argv, fault, relErr) ==
  /\ ncalls < MaxCalls
  /\ Len(procs) < MaxSpawns
  /\ LET h == Len(procs) + 1
         r == ExecCall(f[l], release, name, argv, parent, h, fault, relErr)
     IN  /\ f' = StoreProcess(f, l, r.process)
         /\ procs' = AfterRelease(procs \o r.child, r.relOn)
         /\ relCount' = Bump(relCount, r.relOn, Len(procs \o r.child))
         /\ hist' = [hist EXCEPT ![l] = Push(@,
                       [seq |-> ncalls + 1,
                        op |-> "Exec", release |-> release, name |-> name,
                        argv |-> argv, attr |-> r.attr,
                        pre |-> f[l].process, post |-> r.process,
                        spawnErr |-> r.spawnErr, err |-> r.err,
                        p |-> IF r.child = <<>> THEN Nil ELSE h,
                        relOn |-> r.relOn,
                        osRel |-> IF r.relOn = <<>> THEN NilErr ELSE relErr])]
         /\ lastExec' = [lastExec EXCEPT ![l] =
                           [called |-> TRUE, ok |-> r.spawnErr = NilErr,
                            p |-> IF r.child = <<>> THEN Nil ELSE h]]
  /\ ncalls' = ncalls + 1
  /\ UNCHANGED <<parent, openFiles, thr>>

Release(l, relErr) ==
  /\ ncalls < MaxCalls
  /\ LET r == ReleaseCall(f[l], relErr)
     IN  /\ f' = StoreProcess(f, l, r.process)
         /\ procs' = AfterRelease(procs, r.relOn)
         /\ relCount' = Bump(relCount, r.relOn, Len(procs))
         /\ hist' = [hist EXCEPT ![l] = Push(@,
                       [seq |-> ncalls + 1,
                        op |-> "Release", release |-> FALSE, name |-> "",
                        argv |-> <<>>, attr |-> <<>>,
                        pre |-> f[l].process, post |-> r.process,
                        spawnErr |-> NilErr, err |-> r.err, p |-> Nil,
                        relOn |-> r.relOn,
                        osRel |-> IF r.relOn = <<>> THEN NilErr ELSE relErr])]
  /\ ncalls' = ncalls + 1
  /\ UNCHANGED <<parent, lastExec, openFiles, thr>>

Next ==
  \/ \E l \in DOMAIN f, release \in BOOLEAN, name \in ProcessNames,
        argv \in ArgvSet, fault \in Faults, relErr \in ReleaseErrs :
       Exec(l, release, name, argv, fault, relErr)
  \/ \E l \in DOMAIN f, relErr \in ReleaseErrs : Release(l, relErr)

Spec == Init /\ [][Next]_vars

\* two launchers, constructed with different arguments by one caller
InitTwo ==
  /\ InitFor({1, 2})
  /\ f[1].uid = 0
  /\ f[2].uid = 1000
  /\ parent.groups # {}

\* the calls of the two launchers interleave in any order; one path that
\* spawns and one that does not
NextTwo ==
  \/ \E l \in DOMAIN f, release \in BOOLEAN, name \in {"/bin/sleep", "/nonexistent"},
        argv \in ArgvSet, relErr \in ReleaseErrs :
       Exec(l, release, name, argv, NilErr, relErr)
  \/ \E l \in DOMAIN f, relErr \in ReleaseErrs : Release(l, relErr)

SpecTwo == InitTwo /\ [][NextTwo]_vars

\* ------------------------------------------------- unserialized callers
\* Two goroutines call Exec and Release on launcher 1 with no lock around
\* the calls; a call is a sequence of steps, one per access to f.process.

\* line 115 calls Release on the value the field f.process holds then, not
\* on the local result of os.StartProcess
ExecReleaseTarget_Local(field, own) == own

ExecReleaseTarget(field, own) == field

\* no goroutine has panicked (a panic ends the program)
Running == \A t \in Threads : thr[t].pc # "panic"

\* goroutine t can start a call
CanCall(t) == /\ Running
              /\ thr[t].pc \in {"idle", "done"}
              /\ ncalls < MaxCalls

\* thr after goroutine t has written f.process: the goroutines that are
\* between two of their own accesses to the field now hold a stale view
AfterWrite(th, t) ==
  [u \in Threads |->
     IF u # t /\ th[u].pc \in {"release", "rel"}
       THEN [th[u] EXCEPT !.stale = TRUE] ELSE th[u]]

\* lines 86-109, right-hand side: the attributes are built and
\* os.StartProcess runs; its results are not assigned yet
ExecStart(t, release, name, argv, fault) ==
  /\ CanCall(t)
  /\ Len(procs) < MaxSpawns
  /\ LET sp == StartProcess(name, argv, ProcAttr(f[1], parent), parent,
                            Len(procs) + 1, fault)
     IN  /\ procs' = procs \o sp.child
         /\ relCount' = Bump(relCount, <<>>, Len(procs \o sp.child))
         /\ thr' = [thr EXCEPT ![t] =
                      [Idle EXCEPT !.pc = "store", !.op = "Exec",
                                   !.release = release, !.p = sp.p,
                                   !.err = sp.err]]
  /\ ncalls' = ncalls + 1
  /\ UNCHANGED <<f, parent, hist, lastExec, openFiles>>

\* line 109, the assignment, and the tests of lines 110 and 114
ExecStore(t) ==
  /\ Running
  /\ thr[t].pc = "store"
  /\ f' = StoreProcess(f, 1, ExecAssign(f[1].process, thr[t]))
  /\ thr' = AfterWrite(
              [thr EXCEPT ![t].pc =
                 IF thr[t].err # NilErr THEN "done"
                 ELSE IF thr[t].release THEN "release" ELSE "done"], t)
  /\ UNCHANGED <<procs, relCount, parent, hist, lastExec, ncalls, openFiles>>

\* line 115: f.process is read and os.Process.Release is called on it; on a
\* nil pointer the call panics
ExecRelease(t, relErr) ==
  /\ Running
  /\ thr[t].pc = "release"
  /\ LET h == ExecReleaseTarget(f[1].process, thr[t].p)
     IN  IF h = Nil
           THEN /\ thr' = [thr EXCEPT ![t].pc = "panic"]
                /\ UNCHANGED <<procs, relCount>>
           ELSE /\ thr' = [thr EXCEPT ![t].pc = "clear", ![t].target = h,
                                      ![t].err = relErr]
                /\ procs' = AfterRelease(procs, <<h>>)
                /\ relCount' = Bump(relCount, <<h>>, Len(procs))
  /\ UNCHANGED <<f, parent, hist, lastExec, ncalls, openFiles>>

\* line 116, and the return of lines 117-121
ExecClear(t) ==
  /\ Running
  /\ thr[t].pc = "clear"
  /\ f' = StoreProcess(f, 1, Nil)
  /\ thr' = AfterWrite([thr EXCEPT ![t].pc = "done"], t)
  /\ UNCHANGED <<procs, relCount, parent, hist, lastExec, ncalls, openFiles>>

\* line 126: the call copies the struct into the value receiver
ReleaseStart(t) ==
  /\ CanCall(t)
  /\ thr' = [thr EXCEPT ![t] =
               [Idle EXCEPT !.pc = "rel", !.op = "Release",
                            !.copy = f[1].process]]
  /\ ncalls' = ncalls + 1
  /\ UNCHANGED <<f, procs, relCount, parent, hist, lastExec, openFiles>>

\* lines 127-130, on the copy
ReleaseRun(t, relErr) ==
  /\ Running
  /\ thr[t].pc = "rel"
  /\ LET r == ReleaseCall([f[1] EXCEPT !.process = thr[t].copy], relErr)
     IN  /\ thr' = [thr EXCEPT ![t].pc = "done", ![t].err = r.err,
                               ![t].target = IF r.relOn = <<>> THEN Nil
                                             ELSE r.relOn[1]]
         /\ procs' = AfterRelease(procs, r.relOn)
         /\ relCount' = Bump(relCount, r.relOn, Len(procs))
  /\ UNCHANGED <<f, parent, hist, lastExec, ncalls, openFiles>>

NextConc ==
  \/ \E t \in Threads, release \in BOOLEAN, name \in {"/bin/sleep", "/nonexistent"},
        argv \in ArgvSet : ExecStart(t, release, name, argv, NilErr)
  \/ \E t \in Threads : ExecStore(t)
  \/ \E t \in Threads, relErr \in ReleaseErrs : ExecRelease(t, relErr)
  \/ \E t \in Threads : ExecClear(t)
  \/ \E t \in Threads : ReleaseStart(t)
  \/ \E t \in Threads, relErr \in ReleaseErrs : ReleaseRun(t, relErr)

SpecConc == Init /\ [][NextConc]_vars

\* ----------------------------------------------------------- vocabulary
\* the most recent call made on launcher l (hist[l] is not empty)
Last(l) == hist[l][Len(hist[l])]

\* launcher l has been called at least n times
Called(l, n) == Len(hist[l]) >= n

\* the call before the most recent one (hist[l] has two entries)
Prev(l) == hist[l][Len(hist[l]) - 1]

\* this step is a call on launcher l
CallOn(l) == /\ hist'[l] # <<>>
             /\ hist'[l][Len(hist'[l])].seq = ncalls + 1
             /\ ncalls' = ncalls + 1

\* the call this step makes on launcher l
This(l) == hist'[l][Len(hist'[l])]

\* handle h is the field process of some launcher
Tracked(h) == \E l \in DOMAIN f : f[l].process = h

SpawnOk(c) == c.op = "Exec" /\ c.spawnErr = NilErr

\* ------------------------------------------------------------------- C1
\* C1: after any call to Release has returned, the launcher's process field
\* is nil, whether os.Process.Release succeeded or reported an error.
C1_ReleaseClearsProcess ==
  \A l \in DOMAIN f :
    (Called(l, 1) /\ Last(l).op = "Release") => f[l].process = Nil

\* ------------------------------------------------------------------- C2
\* C2: an Exec whose process creation fails returns the OS error and leaves
\* the process field as it was before the call, also when a handle was tracked.
C2_FailedExecLeavesProcess ==
  \A l \in DOMAIN f :
    (Called(l, 1) /\ Last(l).op = "Exec" /\ Last(l).spawnErr # NilErr)
      => /\ Last(l).err = Last(l).spawnErr
         /\ f[l].process = Last(l).pre

\* ------------------------------------------------------------------- C3
\* C3: in every reachable state the process field is non-nil if and only if
\* the most recent Exec succeeded and os.Process.Release has not been invoked
\* on the handle it produced since.
C3_PresentIffSpawnedUnreleased ==
  \A l \in DOMAIN f :
    (f[l].process # Nil)
      <=> (/\ lastExec[l].called
           /\ lastExec[l].ok
           /\ relCount[lastExec[l].p] = 0)

\* ------------------------------------------------------------------- C4
\* C4: after one successful Exec(release = false), of two Release calls in a
\* row the second returns nil, does not invoke os.Process.Release again and
\* changes nothing (the first having returned nil).
C4_SecondReleaseNoOp ==
  \A l \in DOMAIN f :
    (/\ Len(hist[l]) = 3
     /\ SpawnOk(hist[l][1]) /\ ~hist[l][1].release
     /\ hist[l][2].op = "Release" /\ hist[l][2].err = NilErr
     /\ hist[l][3].op = "Release")
      => /\ hist[l][3].err = NilErr
         /\ hist[l][3].relOn = <<>>
         /\ hist[l][3].post = hist[l][3].pre
         /\ relCount[hist[l][1].p] <= 1

\* ------------------------------------------------------------------- C5
\* C5: a Release called while the process field is nil returns nil, invokes
\* os.Process.Release on no handle and leaves the launcher and the handles
\* as they were.
C5_Step ==
  \A l \in DOMAIN f :
    (CallOn(l) /\ This(l).op = "Release" /\ f[l].process = Nil)
      => /\ This(l).err = NilErr
         /\ This(l).relOn = <<>>
         /\ f' = f
         /\ relCount' = relCount
         /\ procs' = procs

C5_ReleaseOnNilIsNoOp == [][C5_Step]_vars

\* Release has run on a nil field: before any Exec, after a failed Exec and
\* after an Exec with release = true
C5_Witness ==
  \E l \in DOMAIN f :
    /\ Len(hist[l]) = 3
    /\ \A i \in 1..3 : hist[l][i].pre = Nil
    /\ hist[l][1].op = "Release"
    /\ hist[l][2].op = "Exec"
    /\ hist[l][3].op = "Release"
    /\ \/ hist[l][2].spawnErr # NilErr
       \/ SpawnOk(hist[l][2]) /\ hist[l][2].release

\* ------------------------------------------------------------------- C6
\* C6: an Exec with release = true whose spawn succeeds invokes
\* os.Process.Release on the handle it has just created, exactly once and
\* before it returns, leaves the process field nil also when that release
\* reports an error, and returns what the release reported.
C6_Step ==
  \A l \in DOMAIN f :
    (CallOn(l) /\ SpawnOk(This(l)) /\ This(l).release)
      => /\ This(l).p = Len(procs) + 1
         /\ Len(procs') = Len(procs) + 1
         /\ This(l).relOn = <<This(l).p>>
         /\ relCount'[This(l).p] = 1
         /\ f'[l].process = Nil
         /\ This(l).err = This(l).osRel

C6_DetachReleasesNewHandle == [][C6_Step]_vars

\* an Exec with release = true has spawned while a handle was tracked, and
\* the release reported an error
C6_Witness ==
  \E l \in DOMAIN f :
    /\ Called(l, 1)
    /\ SpawnOk(Last(l)) /\ Last(l).release
    /\ Last(l).osRel = "EINVAL"
    /\ Last(l).err = "EINVAL"
    /\ Last(l).pre # Nil
    /\ f[l].process = Nil

\* ------------------------------------------------------------------- C7
\* C7: an Exec with release = false whose spawn succeeds returns nil and
\* leaves the process field referring to the process this call created,
\* whether the field was nil or held another handle before.
C7_Step ==
  \A l \in DOMAIN f :
    (CallOn(l) /\ SpawnOk(This(l)) /\ ~This(l).release)
      => /\ This(l).err = NilErr
         /\ Len(procs') = Len(procs) + 1
         /\ f'[l].process = Len(procs')
         /\ f'[l].process # f[l].process
         /\ procs'[f'[l].process].name = This(l).name
         /\ This(l).relOn = <<>>

C7_ExecTracksNewHandle == [][C7_Step]_vars

\* an Exec with release = false has replaced a tracked handle by a new one
C7_Witness ==
  \E l \in DOMAIN f :
    /\ Called(l, 1)
    /\ SpawnOk(Last(l)) /\ ~Last(l).release
    /\ Last(l).pre # Nil
    /\ f[l].process = Last(l).p
    /\ f[l].process # Last(l).pre

\* ------------------------------------------------------------------- C8
BadNames == {"/nonexistent", "/etc/passwd"}

\* the call c is an Exec of a path that cannot be executed, on a nil field
FailedFromNoProcess(c) ==
  c.op = "Exec" /\ c.name \in BadNames /\ c.pre = Nil

\* process creation of the call c failed for lack of resources
OutOfResources(c) == c.spawnErr # NilErr /\ c.spawnErr[3] = "EAGAIN"

\* C8: from a nil process field, an Exec of a nonexistent or non-executable
\* path returns a non-nil error, creates no process and leaves the field
\* nil; an Exec of a valid path that follows on the same launcher succeeds.
C8_Step ==
  \A l \in DOMAIN f :
    /\ (CallOn(l) /\ FailedFromNoProcess(This(l)))
         => /\ This(l).err # NilErr
            /\ procs' = procs
            /\ relCount' = relCount
            /\ f'[l].process = Nil
    /\ (/\ CallOn(l)
        /\ Called(l, 1) /\ FailedFromNoProcess(Last(l))
        /\ This(l).op = "Exec"
        /\ This(l).name = "/bin/sleep" /\ ~OutOfResources(This(l)))
         => /\ This(l).spawnErr = NilErr
            /\ Len(procs') = Len(procs) + 1
            /\ This(l).release => This(l).err = This(l).osRel
            /\ ~This(l).release => (This(l).err = NilErr /\ f'[l].process = Len(procs'))

C8_FailedExecFromNoProcess == [][C8_Step]_vars

\* a failed Exec on a nil field was followed by a successful one
C8_Witness ==
  \E l \in DOMAIN f :
    /\ Called(l, 2)
    /\ FailedFromNoProcess(Prev(l))
    /\ Prev(l).err # NilErr
    /\ SpawnOk(Last(l)) /\ Last(l).err = NilErr
    /\ f[l].process = Last(l).p
    /\ Len(procs) = 1

\* ------------------------------------------------------------------- C9
\* C9: an Exec that spawns while a handle is tracked returns no error of its
\* own and stops tracking the old handle without invoking
\* os.Process.Release on it; a handle that no launcher tracks is never
\* tracked again and os.Process.Release is never invoked on it.
C9_Step ==
  /\ \A l \in DOMAIN f :
       (CallOn(l) /\ SpawnOk(This(l)) /\ f[l].process # Nil)
         => /\ This(l).err = This(l).osRel
            /\ f'[l].process # f[l].process
            /\ relCount'[f[l].process] = relCount[f[l].process]
  /\ \A h \in 1..Len(procs) :
       ~Tracked(h) => /\ ~Tracked(h)'
                      /\ relCount'[h] = relCount[h]

C9_OldHandleDroppedUnreleased == [][C9_Step]_vars

\* a tracked, unreleased handle was replaced by a successful Exec, and a
\* Release was called after that: the old handle is still unreleased
C9_Witness ==
  \E l \in DOMAIN f :
    /\ Called(l, 2)
    /\ SpawnOk(Prev(l)) /\ Prev(l).pre # Nil /\ Prev(l).err = NilErr
    /\ Last(l).op = "Release"
    /\ ~Tracked(Prev(l).pre)
    /\ relCount[Prev(l).pre] = 0

\* ------------------------------------------------------------------ C10
\* the processes spawned by the remembered calls of launcher l
SpawnedBy(l) == { hist[l][i].p : i \in {j \in 1..Len(hist[l]) : hist[l][j].p # Nil} }

C11_SpawnRequest ==
  \A l \in DOMAIN f : \A i \in 1..Len(hist[l]) :
    hist[l][i].op = "Exec" =>
      LET c == hist[l][i]
          a == c.attr
      IN  /\ Len(a.Files) = 3
          /\ a.Files[1] = f[l].stdin
          /\ a.Files[2] = f[l].stdout
          /\ a.Files[3] = f[l].stderr
          /\ a.Dir = f[l].execPath
          /\ a.Env = parent.env
          /\ a.Sys.Setsid
          /\ c.p # Nil =>
               /\ procs[c.p].fds = <<f[l].stdin, f[l].stdout, f[l].stderr>>
               /\ procs[c.p].dir = f[l].execPath
               /\ procs[c.p].env = parent.env
               /\ procs[c.p].sid # parent.sid
               /\ procs[c.p].name = c.name
               /\ procs[c.p].argv = c.argv

\* a launcher with three different streams has issued a request that failed
\* and then one that created a child
C11_Witness ==
  \E l \in DOMAIN f :
    /\ f[l].stdout # f[l].stderr
    /\ Called(l, 2)
    /\ Prev(l).op = "Exec" /\ Prev(l).spawnErr # NilErr
    /\ SpawnOk(Last(l))
    /\ procs[Last(l).p].fds = <<5, 6, 7>>

\* ------------------------------------------------------------------ C12
\* the configuration of a launcher: every field but process
Config(fp) == <<fp.stdin, fp.stdout, fp.stderr, fp.uid, fp.gid, fp.execPath>>

\* C12: no Exec and no Release, succeeding or failing, changes the
\* configuration of a launcher or closes a file: the launchers stay the
\* same ones, their stdin, stdout, stderr, uid, gid and execPath keep their
\* values, and every file that was open is still open.
C12_Step ==
  /\ DOMAIN f' = DOMAIN f
  /\ \A l \in DOMAIN f : Config(f'[l]) = Config(f[l])
  /\ openFiles' = openFiles

C12_ConfigurationIsFrame == [][C12_Step]_vars

\* a launcher has spawned, released and failed to spawn, in that order, and
\* its three streams are open
C12_Witness ==
  \E l \in DOMAIN f :
    /\ Len(hist[l]) = 3
    /\ SpawnOk(hist[l][1])
    /\ hist[l][2].op = "Release" /\ hist[l][2].relOn # <<>>
    /\ hist[l][3].op = "Exec" /\ hist[l][3].spawnErr # NilErr
    /\ Streams(f[l]) \subseteq openFiles
    /\ \E c \in Configs : Config(f[l]) = Config(c)

\* ------------------------------------------------------------------ C13
\* C13: invoking os.Process.Release on a handle, from Release or from the
\* release path of Exec, does not terminate or remove the process: no call
\* removes or changes an entry of the process table, and a process created
\* by an Exec with release = true is running when that Exec returns.
C13_Step ==
  /\ Len(procs') >= Len(procs)
  /\ \A h \in 1..Len(procs) : procs'[h] = procs[h]
  /\ \A h \in 1..Len(procs') : relCount'[h] > 0 => procs'[h].running

C13_ReleaseKeepsProcess == [][C13_Step]_vars

\* one process was released by Release, another by the release path of
\* Exec, and both are running
C13_Witness ==
  \E l \in DOMAIN f :
    /\ Len(hist[l]) = 3
    /\ SpawnOk(hist[l][1]) /\ ~hist[l][1].release
    /\ hist[l][2].op = "Release" /\ hist[l][2].relOn = <<hist[l][1].p>>
    /\ SpawnOk(hist[l][3]) /\ hist[l][3].release
    /\ relCount[hist[l][1].p] = 1 /\ procs[hist[l][1].p].running
    /\ relCount[hist[l][3].p] = 1 /\ procs[hist[l][3].p].running

\* ------------------------------------------------------------------ C14
\* what a call leaves in the process field, from the call alone
PostOf(c) ==
  IF c.op = "Release" THEN c.pre
  ELSE IF c.spawnErr # NilErr \/ c.release THEN Nil ELSE c.p

\* C14: under any interleaving of the calls of two launchers, a call on one
\* launcher leaves the other launcher's struct untouched and invokes
\* os.Process.Release on no handle but its own; it starts from the process
\* field its own previous call left, ends as it would alone, and its child
\* carries its own launcher's uid and streams.
C14_Step ==
  \A l \in DOMAIN f :
    CallOn(l) =>
      /\ \A m \in DOMAIN f \ {l} : f'[m] = f[m] /\ hist'[m] = hist[m]
      /\ \A h \in 1..Len(procs) :
           h # f[l].process => relCount'[h] = relCount[h]
      /\ This(l).pre = (IF Called(l, 1) THEN Last(l).post ELSE Nil)
      /\ This(l).pre = f[l].process
      /\ This(l).post = PostOf(This(l))
      /\ f'[l].process = This(l).post
      /\ This(l).p # Nil =>
           /\ procs'[This(l).p].uid = f[l].uid
           /\ procs'[This(l).p].fds = <<f[l].stdin, f[l].stdout, f[l].stderr>>

C14_LaunchersIndependent == [][C14_Step]_vars

\* the calls of the two launchers were interleaved: launcher 1 still tracks
\* the process it spawned, while launcher 2 spawned, released and failed
C14_Witness ==
  /\ DOMAIN f = {1, 2}
  /\ Len(hist[1]) = 2 /\ Len(hist[2]) = 2
  /\ hist[1][1].seq < hist[2][1].seq
  /\ hist[2][1].seq < hist[1][2].seq
  /\ hist[1][2].seq < hist[2][2].seq
  /\ SpawnOk(hist[1][1]) /\ SpawnOk(hist[2][1])
  /\ hist[1][2].op = "Release"
  /\ hist[2][2].op = "Exec" /\ hist[2][2].spawnErr # NilErr
  /\ f[1].process = hist[1][1].p
  /\ f[2].process = Nil

\* ------------------------------------------------------------------ C16
\* C16: Exec returns nil exactly when the spawn succeeded and either release
\* is false or os.Process.Release reported no error; otherwise it returns
\* the error of os.StartProcess as it was returned, else the error of the
\* release; when the spawn failed no release is attempted.
C16_Step ==
  \A l \in DOMAIN f :
    (CallOn(l) /\ This(l).op = "Exec") =>
      LET c == This(l)
      IN  /\ (c.err = NilErr)
               <=> (c.spawnErr = NilErr /\ (~c.release \/ c.osRel = NilErr))
          /\ c.spawnErr # NilErr =>
               /\ c.err = c.spawnErr
               /\ c.spawnErr[1] = "fork/exec" /\ c.spawnErr[2] = c.name
               /\ c.relOn = <<>>
               /\ relCount' = relCount
          /\ (c.spawnErr = NilErr /\ c.release) =>
               /\ c.relOn = <<c.p>>
               /\ c.err = c.osRel
          /\ (c.spawnErr = NilErr /\ ~c.release) => c.relOn = <<>>

C16_ExecReturnValue == [][C16_Step]_vars

\* Exec has returned a spawn error although release was requested, then a
\* release error, then nil
C16_Witness ==
  \E l \in DOMAIN f :
    /\ Len(hist[l]) = 3
    /\ hist[l][1].op = "Exec" /\ hist[l][1].release
    /\ hist[l][1].spawnErr # NilErr
    /\ hist[l][1].err = <<"fork/exec", "/etc/passwd", "EACCES">>
    /\ SpawnOk(hist[l][2]) /\ hist[l][2].release /\ hist[l][2].err = "EINVAL"
    /\ SpawnOk(hist[l][3]) /\ hist[l][3].err = NilErr

\* ------------------------------------------------------------------ C17
\* C17: over any sequence of Exec and Release calls on one launcher,
\* os.Process.Release is only invoked on a handle that a successful
\* os.StartProcess produced, never on nil: not in the release path of Exec
\* and not in Release.
C17_Step ==
  \A l \in DOMAIN f :
    CallOn(l) =>
      \A i \in 1..Len(This(l).relOn) :
        /\ This(l).relOn[i] # Nil
        /\ This(l).relOn[i] \in 1..Len(procs')
        /\ \/ This(l).relOn[i] > Len(procs)
           \/ relCount'[This(l).relOn[i]] > relCount[This(l).relOn[i]]

C17_ReleaseOnlyOnSpawnedHandle == [][C17_Step]_vars

\* an Exec with release = true has failed to spawn and a Release has run on
\* the nil field it left: no release was invoked; before that a spawned
\* handle was released
C17_Witness ==
  \E l \in DOMAIN f :
    /\ Len(hist[l]) = 3
    /\ SpawnOk(hist[l][1]) /\ hist[l][1].release /\ hist[l][1].relOn = <<hist[l][1].p>>
    /\ hist[l][2].op = "Exec" /\ hist[l][2].release /\ hist[l][2].spawnErr # NilErr
    /\ hist[l][2].relOn = <<>>
    /\ hist[l][3].op = "Release" /\ hist[l][3].pre = Nil /\ hist[l][3].relOn = <<>>
    /\ relCount = <<1>>

\* ------------------------------------------------------------------ C15
\* goroutine t moves from position a to position b in this step
Moves(t, a, b) == thr[t].pc = a /\ thr'[t].pc = b

\* C15: Exec and Release take no lock.  With two goroutines calling one
\* launcher, the assignment of line 109 stores its handle whatever the other
\* goroutine is doing; the release of line 115 acts on the value f.process
\* holds at that moment, which is the handle this Exec spawned only if the
\* other goroutine has not written the field in between (and panics if the
\* other goroutine left nil there); Release acts on the value it copied when
\* it was called, which is the current value of the field only if the other
\* goroutine has not written it since.  Which handle is released, and which
\* one stays tracked, thus follows the order of the two goroutines' steps.
C15_Step ==
  \A t \in Threads :
    /\ (thr[t].pc = "store" /\ thr'[t].pc # "store")
         => f'[1].process = thr[t].p
    /\ Moves(t, "release", "clear")
         => /\ thr'[t].target = f[1].process
            /\ relCount'[f[1].process] = relCount[f[1].process] + 1
            /\ (~thr[t].stale => f[1].process = thr[t].p)
    /\ Moves(t, "release", "panic")
         => thr[t].stale /\ f[1].process = Nil
    /\ Moves(t, "rel", "done")
         => /\ thr'[t].target = thr[t].copy
            /\ (~thr[t].stale => f[1].process = thr[t].copy)
            /\ thr[t].copy # Nil =>
                 relCount'[thr[t].copy] = relCount[thr[t].copy] + 1
    /\ Moves(t, "clear", "done") => f'[1].process = Nil

C15_UnserializedCalls == [][C15_Step]_vars

\* two Execs with release = true have overlapped and both have returned:
\* one of them released the handle the other one had stored, and the
\* process it spawned itself is neither tracked nor released
C15_Witness ==
  \E t \in Threads : \E u \in Threads \ {t} :
    /\ thr[t].pc = "done" /\ thr[t].op = "Exec" /\ thr[t].release
    /\ thr[u].op = "Exec" /\ thr[u].p # Nil
    /\ thr[t].p # Nil
    /\ thr[t].target = thr[u].p
    /\ thr[t].stale
    /\ relCount[thr[t].p] = 0
    /\ f[1].process # thr[t].p

TypeOK ==
  /\ \A l \in DOMAIN f : f[l].process \in 0..Len(procs)
  /\ Len(relCount) = Len(procs)
  /\ Len(procs) <= MaxSpawns
  /\ ncalls <= MaxCalls
====
